---- MODULE Spec2Model ----
(***************************************************************************)
(* Model of the cost cascade of gastro_calc.py (GastroCalculator) and of   *)
(* the parts of streamlit_app.py that drive it (price update, dashboard).  *)
(*                                                                         *)
(* Money, volumes and factors are exact rationals [n, d] (d > 0, lowest    *)
(* terms); Python's binary floating point is not modelled.  A call of      *)
(* calculate_recipe_cost is a stack of frames, one per active invocation,  *)
(* advanced one recipe item at a time; an exception unwinds the whole      *)
(* stack, since the calculator has no handler of its own.                  *)
(***************************************************************************)
EXTENDS Integers, Sequences, FiniteSets, TLC

(***************************************************************************)
(* Bounds of the model.                                                    *)
(***************************************************************************)
MaxRecipes == 5      \* recipe ids 1..MaxRecipes have a record
MaxPrice == 2        \* ingredient prices are 0..MaxPrice (CHF)
MaxCalls == 2        \* top-level calculate_* calls in one behaviour
MaxUpdates == 1      \* price updates in one behaviour

(***************************************************************************)
(* Program constant: the recursion guard "depth > 3".                      *)
(***************************************************************************)
MaxDepth == 3

(***************************************************************************)
(* Exact rational arithmetic.                                              *)
(***************************************************************************)
Abs(x) == IF x < 0 THEN -x ELSE x

RECURSIVE GCD(_, _)
GCD(a, b) == IF b = 0 THEN a ELSE GCD(b, a % b)

Q(n, d) == LET g == GCD(Abs(n), d) IN [n |-> n \div g, d |-> d \div g]

QInt(k) == [n |-> k, d |-> 1]
QZero == QInt(0)
QAdd(a, b) == Q(a.n * b.d + b.n * a.d, a.d * b.d)
QSub(a, b) == Q(a.n * b.d - b.n * a.d, a.d * b.d)
QMul(a, b) == Q(a.n * b.n, a.d * b.d)
QDiv(a, b) == IF b.n > 0 THEN Q(a.n * b.d, a.d * b.n)
                         ELSE Q(-(a.n * b.d), -(a.d * b.n))
QLe(a, b) == a.n * b.d <= b.n * a.d
QLt(a, b) == a.n * b.d < b.n * a.d
QAbs(a) == [n |-> Abs(a.n), d |-> a.d]

(***************************************************************************)
(* Python's round(x): nearest integer, ties to the even one.               *)
(***************************************************************************)
PyRound_Truncating(x) == x.n \div x.d

PyRound(x) ==
    LET fl == x.n \div x.d
        twice == 2 * (x.n - fl * x.d)
    IN  IF twice < x.d THEN fl
        ELSE IF twice > x.d THEN fl + 1
        ELSE IF fl % 2 = 0 THEN fl ELSE fl + 1

(***************************************************************************)
(* Core calculation functions.                                             *)
(***************************************************************************)
calc_cost_per_liter_NoYield(ingredients_cost, energy_cost, batch_size_l, yield_pct) ==
    IF QLe(batch_size_l, QZero) \/ QLe(yield_pct, QZero)
    THEN QZero
    ELSE QDiv(QAdd(ingredients_cost, energy_cost), batch_size_l)

calc_cost_per_liter_NetGuard(ingredients_cost, energy_cost, batch_size_l, yield_pct) ==
    LET net_output == QMul(batch_size_l, QDiv(yield_pct, QInt(100)))
    IN  IF QLe(net_output, QZero)
        THEN QZero
        ELSE QDiv(QAdd(ingredients_cost, energy_cost), net_output)

calc_cost_per_liter(ingredients_cost, energy_cost, batch_size_l, yield_pct) ==
    IF QLe(batch_size_l, QZero) \/ QLe(yield_pct, QZero)
    THEN QZero
    ELSE QDiv(QAdd(ingredients_cost, energy_cost),
              QMul(batch_size_l, QDiv(yield_pct, QInt(100))))

calc_cost_per_unit(cost_per_liter, size_l, price_jar, price_lid, price_label) ==
    QAdd(QAdd(QAdd(QMul(cost_per_liter, size_l), price_jar), price_lid), price_label)

calc_target_price(cost_per_unit, markup_factor) ==
    LET base == QMul(cost_per_unit, markup_factor)
    IN  Q(PyRound(QMul(base, QInt(20))), 20)

(***************************************************************************)
(* The store (the SQLite tables of setup_database).  NULL is 0; ids start  *)
(* at 1 (AUTOINCREMENT).  Foreign keys are declared but SQLite does not    *)
(* enforce them without PRAGMA foreign_keys, so a reference may dangle.    *)
(***************************************************************************)
RecipeIds == 1..MaxRecipes
AbsentRecipe == MaxRecipes + 1
IngredientIds == {1, 2}
AbsentIngredient == Cardinality(IngredientIds) + 1
ProductIds == {1, 2, 3}
AbsentProduct == Cardinality(ProductIds) + 1
PackagingIds == {1, 2}
AbsentPackaging == Cardinality(PackagingIds) + 1
Depths == {0, MaxDepth, MaxDepth + 1}

\* recipes: batch_size_l > 0, energy_cost_chf >= 0, 0 < yield_pct <= 100
recipes ==
    [r \in RecipeIds |->
        [name |-> r,
         batch_size_l |-> QInt(IF r % 2 = 1 THEN 1 ELSE 2),
         energy_cost_chf |-> QInt(IF r % 2 = 1 THEN 1 ELSE 0),
         yield_pct |-> QInt(IF r % 3 = 0 THEN 50 ELSE 100),
         level |-> 1]]

\* packaging_types: size_l > 0, prices >= 0
packaging_types ==
    [k \in PackagingIds |->
        IF k = 1
        THEN [name |-> 1, size_l |-> Q(49, 200), price_jar |-> Q(69, 50),
              price_lid |-> QZero, price_label |-> Q(3, 5)]
        ELSE [name |-> 2, size_l |-> Q(1, 2), price_jar |-> QZero,
              price_lid |-> QZero, price_label |-> QZero]]

\* products: 1.0 <= markup_factor <= 10.0
products ==
    [p \in ProductIds |->
        CASE p = 1 -> [recipe_id |-> 1, packaging_id |-> 1, markup_factor |-> Q(19, 5)]
          [] p = 2 -> [recipe_id |-> 2, packaging_id |-> 2, markup_factor |-> QInt(1)]
          [] OTHER -> [recipe_id |-> 3, packaging_id |-> AbsentPackaging,
                       markup_factor |-> Q(13, 2)]]

\* recipe_items rows: exactly one of ingredient_id, sub_recipe_id is set
IngItem(i, a) == [ingredient_id |-> i, sub_recipe_id |-> 0, amount |-> QInt(a)]
SubItem(r, a) == [ingredient_id |-> 0, sub_recipe_id |-> r, amount |-> QInt(a)]

(***************************************************************************)
(* The recipe graphs the model starts from.  Recipes 1..len form a chain   *)
(* of sub-recipe references, each recipe listing its sub-recipe before its *)
(* ingredient as the seed data does (len = MaxRecipes + 1: the last recipe *)
(* references a recipe without record).  A variant adds one more row:      *)
(*   "back"    recipe len references recipe 1 (a cycle; len = 1: itself)   *)
(*   "diamond" recipe 1 references recipe 3 a second time                  *)
(*   "bad"     recipe 2 references an ingredient without record            *)
(***************************************************************************)
Variants == {"plain", "back", "diamond", "bad"}

StoreItems(len, variant) ==
    [r \in RecipeIds |->
        (IF r < len THEN <<SubItem(r + 1, 1)>> ELSE <<>>)
        \o <<IngItem(1 + (r % 2), 2)>>
        \o (IF variant = "diamond" /\ r = 1 THEN <<SubItem(3, 2)>> ELSE <<>>)
        \o (IF variant = "back" /\ r = len THEN <<SubItem(1, 1)>> ELSE <<>>)
        \o (IF variant = "bad" /\ r = 2 THEN <<IngItem(AbsentIngredient, 1)>>
                                         ELSE <<>>)]

Stores ==
    {StoreItems(len, variant) : len \in 1..(MaxRecipes + 1), variant \in Variants}

VARIABLES
    recipe_items,   \* table recipe_items: recipe id -> rows, in rowid order
    ingredients,    \* table ingredients: ingredient id -> price_per_unit
    is_open,        \* a GastroCalculator is constructed and not closed
    cache,          \* its _recipe_cache: recipe id -> (cost_per_liter, details)
    stack,          \* active invocations of calculate_recipe_cost, innermost last
    ctx,            \* the caller of the outermost invocation
    last,           \* record of the last finished top-level call
    shown,          \* dashboard rows of the last script run
    recipe_queries, \* per recipe id: SELECTs on recipes by this instance
    item_queries,   \* per recipe id: SELECTs on recipe_items by this instance
    call0,          \* cache and query counts when the current call started
    trace,          \* of the current call: deepest and latest invocation
                    \* entered (<<depth, id>>) and the SELECTs it issued
    returned,       \* recipe id -> value this instance returned before
    failed,         \* an invocation on this instance has raised
    mutated,        \* a price was updated while this instance held memoized values
    ncalls,         \* top-level calls made
    nupdates,       \* price updates made
    pure            \* a direct application of a core calculation function

vars == <<recipe_items, ingredients, is_open, cache, stack, ctx, last, shown,
          recipe_queries, item_queries, call0, trace, returned, failed, mutated,
          ncalls, nupdates, pure>>

EmptyMap == [x \in {} |-> 0]
Idle == [op |-> "none", id |-> 0, depth |-> 0, queue |-> <<>>]
NoCount == [r \in 1..AbsentRecipe |-> 0]
NoTrace == [deep |-> <<-1, 0>>, entered |-> <<-1, 0>>, selects |-> 0]
NoPure == [fn |-> "none", args |-> <<>>, out |-> <<>>]

(***************************************************************************)
(* calculate_recipe_cost, as a transformer of the machine                  *)
(* m = [stack, cache, rq, iq, trace, before, out]: out is <<>> while the   *)
(* outermost invocation is active, else its outcome.                       *)
(***************************************************************************)
Outcome(kind, id, value) == [kind |-> kind, err_id |-> id, value |-> value]

\* raise: nothing in the calculator catches, every frame is discarded
Raise(m, kind, id) ==
    [m EXCEPT !.stack = <<>>, !.out = <<Outcome(kind, id, <<>>)>>]

\* return value to the invocation below (lines 100-113), or to the caller
Return(m, value) ==
    IF m.stack = <<>>
    THEN [m EXCEPT !.out = <<Outcome("ok", 0, <<value>>)>>]
    ELSE LET n == Len(m.stack)
             f == m.stack[n]
             item == recipe_items[f.recipe_id][f.idx]
             cost == QMul(item.amount, value.cost_per_liter)
             g == [f EXCEPT
                     !.idx = f.idx + 1,
                     !.total_material_cost = QAdd(f.total_material_cost, cost),
                     !.sub_recipes = Append(f.sub_recipes,
                         [recipe_id |-> item.sub_recipe_id,
                          name |-> value.details.name,
                          amount_l |-> item.amount,
                          cost_per_liter |-> value.cost_per_liter,
                          cost |-> cost])]
         IN  [m EXCEPT !.stack = [m.stack EXCEPT ![n] = g]]

\* line 45
DepthExceeded_OffByOne(depth) == depth > MaxDepth + 1

DepthExceeded_Never(depth) == FALSE

DepthExceeded(depth) == depth > MaxDepth

\* line 49
CacheHit_Never(m, recipe_id) == FALSE

CacheHit(m, recipe_id) == recipe_id \in DOMAIN m.cache

\* lines 59-60: the recipe row is None
RecipeMissing_Subscripted(m, recipe_id) == Raise(m, "TypeError", recipe_id)

RecipeMissing(m, recipe_id) == Raise(m, "ValueError", recipe_id)

\* lines 45-75: depth guard, cache, recipe row, item rows
Enter(m0, recipe_id, depth) ==
    LET m == [m0 EXCEPT
                !.trace.entered = <<depth, recipe_id>>,
                !.trace.deep = IF depth > @[1] THEN <<depth, recipe_id>> ELSE @]
    IN
    IF DepthExceeded(depth)
    THEN Raise(m, "RecursionError", recipe_id)
    ELSE IF CacheHit(m, recipe_id)
    THEN Return(m, m.cache[recipe_id])
    ELSE LET q == [m EXCEPT !.rq[recipe_id] = @ + 1, !.trace.selects = @ + 1]
         IN  IF recipe_id \notin DOMAIN recipes
             THEN RecipeMissing(q, recipe_id)
             ELSE [q EXCEPT
                     !.iq[recipe_id] = @ + 1,
                     !.trace.selects = @ + 1,
                     !.stack = Append(@,
                         [recipe_id |-> recipe_id, depth |-> depth, idx |-> 1,
                          total_material_cost |-> QZero,
                          ingredients |-> <<>>, sub_recipes |-> <<>>])]

\* an ingredient item passed over
IngredientItem_Skipped(m0) ==
    [m0 EXCEPT !.trace.selects = @ + 1, !.stack[Len(m0.stack)].idx = @ + 1]

\* lines 81-96: an ingredient item; the row of an absent ingredient is None
\* and subscripting it raises TypeError
IngredientItem(m0) ==
    LET m == [m0 EXCEPT !.trace.selects = @ + 1]
        n == Len(m.stack)
        f == m.stack[n]
        item == recipe_items[f.recipe_id][f.idx]
    IN  IF item.ingredient_id \notin DOMAIN ingredients
        THEN Raise(m, "TypeError", item.ingredient_id)
        ELSE LET price == ingredients[item.ingredient_id]
                 cost == QMul(item.amount, price)
                 g == [f EXCEPT
                         !.idx = f.idx + 1,
                         !.total_material_cost = QAdd(f.total_material_cost, cost),
                         !.ingredients = Append(f.ingredients,
                             [name |-> item.ingredient_id,
                              amount |-> item.amount,
                              price_per_unit |-> price,
                              cost |-> cost])]
             IN  [m EXCEPT !.stack = [m.stack EXCEPT ![n] = g]]

\* lines 98-102: a sub-recipe item
SubRecipeItem(m) ==
    LET f == m.stack[Len(m.stack)]
        item == recipe_items[f.recipe_id][f.idx]
    IN  Enter(m, item.sub_recipe_id, f.depth + 1)

\* line 132
Memoize_Skipped(memo, recipe_id, value) == memo

Memoize(memo, recipe_id, value) == (recipe_id :> value) @@ memo

\* lines 115-134: after the last item
Finish(m) ==
    LET n == Len(m.stack)
        f == m.stack[n]
        recipe == recipes[f.recipe_id]
        energy_cost == recipe.energy_cost_chf
        cost_per_liter == calc_cost_per_liter(f.total_material_cost, energy_cost,
                                              recipe.batch_size_l, recipe.yield_pct)
        details == [name |-> recipe.name,
                    batch_size |-> recipe.batch_size_l,
                    yield_pct |-> recipe.yield_pct,
                    level |-> recipe.level,
                    ingredients |-> f.ingredients,
                    sub_recipes |-> f.sub_recipes,
                    energy_cost |-> energy_cost,
                    total_material_cost |-> f.total_material_cost,
                    total_cost |-> QAdd(f.total_material_cost, energy_cost),
                    net_output_l |-> QMul(recipe.batch_size_l,
                                          QDiv(recipe.yield_pct, QInt(100))),
                    cost_per_liter |-> cost_per_liter]
        value == [cost_per_liter |-> cost_per_liter, details |-> details]
    IN  Return([m EXCEPT !.stack = SubSeq(m.stack, 1, n - 1),
                         !.cache = Memoize(m.cache, f.recipe_id, value)],
               value)

(***************************************************************************)
(* calculate_product, lines 150-179: what follows the recipe resolution.   *)
(* The row of an absent packaging is None and subscripting it raises       *)
(* TypeError; a target price of 0 divides by zero.                         *)
(***************************************************************************)
Margin_OverCost(target_price, cost_per_unit) ==
    QMul(QDiv(QSub(target_price, cost_per_unit), cost_per_unit), QInt(100))

Margin(target_price, cost_per_unit) ==
    QMul(QDiv(QSub(target_price, cost_per_unit), target_price), QInt(100))

ProductResult(product_id, o) ==
    IF o.kind # "ok"
    THEN o
    ELSE LET product == products[product_id]
             value == o.value[1]
         IN  IF product.packaging_id \notin DOMAIN packaging_types
             THEN Outcome("TypeError", product.packaging_id, <<>>)
             ELSE LET packaging == packaging_types[product.packaging_id]
                      cost_per_unit ==
                          calc_cost_per_unit(value.cost_per_liter, packaging.size_l,
                              packaging.price_jar, packaging.price_lid,
                              packaging.price_label)
                      target_price ==
                          calc_target_price(cost_per_unit, product.markup_factor)
                  IN  IF target_price = QZero
                      THEN Outcome("ZeroDivisionError", product_id, <<>>)
                      ELSE Outcome("ok", 0,
                             <<[product_id |-> product_id,
                                recipe_name |-> value.details.name,
                                packaging_name |-> packaging.name,
                                size_l |-> packaging.size_l,
                                recipe_cost_per_liter |-> value.cost_per_liter,
                                packaging_cost |->
                                    QAdd(QAdd(packaging.price_jar, packaging.price_lid),
                                         packaging.price_label),
                                cost_per_unit |-> cost_per_unit,
                                markup_factor |-> product.markup_factor,
                                target_price |-> target_price,
                                brutto_margin_pct |-> Margin(target_price, cost_per_unit),
                                recipe_details |-> value.details]>>)

(***************************************************************************)
(* The machine of the state, and its write-back.                           *)
(***************************************************************************)
Machine ==
    [stack |-> stack, cache |-> cache, rq |-> recipe_queries,
     iq |-> item_queries, trace |-> trace, before |-> call0, out |-> <<>>]

\* the machine when a caller enters its outermost invocation
Fresh ==
    [Machine EXCEPT
        !.stack = <<>>,
        !.trace = NoTrace,
        !.before = [cache |-> cache, rq |-> recipe_queries, iq |-> item_queries]]

Prev(recipe_id) ==
    IF recipe_id \in DOMAIN returned THEN <<returned[recipe_id]>> ELSE <<>>

\* the record of a finished top-level call: its arguments, its outcome (final;
\* resolved is what the recipe resolution returned), what this instance had
\* returned for the recipe before (prev), and what the instance and the store
\* held before and after it
Finished(c, recipe_id, o, final, m) ==
    [op |-> c.op, id |-> c.id, depth |-> c.depth, recipe_id |-> recipe_id,
     kind |-> final.kind, err_id |-> final.err_id, value |-> final.value,
     resolved |-> o.value, prev |-> Prev(recipe_id),
     deepest |-> m.trace.deep, entered |-> m.trace.entered,
     selects |-> m.trace.selects,
     cache_before |-> m.before.cache, cache_after |-> m.cache,
     rq_before |-> m.before.rq, rq_after |-> m.rq,
     iq_before |-> m.before.iq, iq_after |-> m.iq,
     prices |-> ingredients, stale |-> mutated]

\* the outermost invocation of caller c ended with outcome o
Deliver(c, o, m) ==
    LET recipe_id == IF c.op = "recipe" THEN c.id ELSE products[c.id].recipe_id
        final == IF c.op = "recipe" THEN o ELSE ProductResult(c.id, o)
    IN  /\ returned' = IF o.kind = "ok"
                       THEN (recipe_id :> o.value[1]) @@ returned
                       ELSE returned
        /\ failed' = (failed \/ o.kind # "ok")
        /\ IF c.op = "dash"
           THEN /\ shown' = (c.id :> Finished(c, recipe_id, o, final, m)) @@ shown
                /\ ctx' = [c EXCEPT !.id = 0]
                /\ last' = last
           ELSE /\ last' = Finished(c, recipe_id, o, final, m)
                /\ ctx' = Idle
                /\ shown' = shown

Commit(m, c) ==
    /\ cache' = m.cache
    /\ recipe_queries' = m.rq
    /\ item_queries' = m.iq
    /\ trace' = m.trace
    /\ call0' = m.before
    /\ IF m.out = <<>>
       THEN /\ stack' = m.stack
            /\ ctx' = c
            /\ UNCHANGED <<last, shown, returned, failed>>
       ELSE /\ stack' = <<>>
            /\ Deliver(c, m.out[1], m)

Top == stack[Len(stack)]
TopItem == recipe_items[Top.recipe_id][Top.idx]
AtItem == stack # <<>> /\ Top.idx <= Len(recipe_items[Top.recipe_id])

NoCall0 == [cache |-> EmptyMap, rq |-> NoCount, iq |-> NoCount]

NoLast ==
    [op |-> "none", id |-> 0, depth |-> 0, recipe_id |-> 0, kind |-> "none",
     err_id |-> 0, value |-> <<>>, resolved |-> <<>>, prev |-> <<>>,
     deepest |-> <<-1, 0>>, entered |-> <<-1, 0>>, selects |-> 0,
     cache_before |-> EmptyMap, cache_after |-> EmptyMap,
     rq_before |-> NoCount, rq_after |-> NoCount,
     iq_before |-> NoCount, iq_after |-> NoCount,
     prices |-> EmptyMap, stale |-> FALSE]

\* the state after setup_database-style tables exist and a calculator is constructed
\* ingredients: the prices the store starts with
InitialPrices == [i \in IngredientIds |-> QInt(1)]

InitStore ==
    /\ recipe_items \in Stores
    /\ ingredients = InitialPrices

InitCalculator ==
    /\ is_open = TRUE
    /\ cache = EmptyMap
    /\ stack = <<>>
    /\ ctx = Idle
    /\ last = NoLast
    /\ shown = EmptyMap
    /\ recipe_queries = NoCount
    /\ item_queries = NoCount
    /\ call0 = NoCall0
    /\ trace = NoTrace
    /\ returned = EmptyMap
    /\ failed = FALSE
    /\ mutated = FALSE
    /\ ncalls = 0
    /\ nupdates = 0

Init ==
    /\ InitStore
    /\ InitCalculator
    /\ pure = NoPure

CanCall == ctx.op = "none" /\ is_open /\ ncalls < MaxCalls

\* GastroCalculator.__init__ (a caller drops the instance it had)
NewCalculator ==
    /\ ctx.op = "none"
    /\ ncalls < MaxCalls
    /\ ~is_open \/ cache # EmptyMap \/ mutated \/ recipe_queries # NoCount
    /\ is_open' = TRUE
    /\ cache' = EmptyMap
    /\ recipe_queries' = NoCount
    /\ item_queries' = NoCount
    /\ returned' = EmptyMap
    /\ failed' = FALSE
    /\ mutated' = FALSE
    /\ UNCHANGED <<recipe_items, ingredients, stack, ctx, last, shown, call0,
                   trace, ncalls, nupdates, pure>>

\* a caller's calculate_recipe_cost(recipe_id, depth)
CalculateRecipeCost(recipe_id, depth) ==
    /\ CanCall
    /\ ncalls' = ncalls + 1
    /\ \E m \in {Enter(Fresh, recipe_id, depth)} :
           Commit(m, [op |-> "recipe", id |-> recipe_id, depth |-> depth,
                      queue |-> <<>>])
    /\ UNCHANGED <<recipe_items, ingredients, is_open, mutated, nupdates, pure>>

\* line 144
ProductFound(product_id) == product_id \in DOMAIN products

\* a caller's calculate_product(product_id), lines 136-148
CalculateProduct(product_id) ==
    /\ CanCall
    /\ ncalls' = ncalls + 1
    /\ IF ~ProductFound(product_id)
       THEN /\ last' = [NoLast EXCEPT
                          !.op = "product", !.id = product_id,
                          !.kind = "ValueError", !.err_id = product_id,
                          !.cache_before = cache, !.cache_after = cache,
                          !.rq_before = recipe_queries, !.rq_after = recipe_queries,
                          !.iq_before = item_queries, !.iq_after = item_queries,
                          !.prices = ingredients, !.stale = mutated]
            /\ trace' = NoTrace
            /\ call0' = Fresh.before
            /\ UNCHANGED <<cache, stack, ctx, shown, recipe_queries, item_queries,
                           returned, failed>>
       ELSE \E m \in {Enter(Fresh, products[product_id].recipe_id, 0)} :
                Commit(m, [op |-> "product", id |-> product_id, depth |-> 0,
                           queue |-> <<>>])
    /\ UNCHANGED <<recipe_items, ingredients, is_open, mutated, nupdates, pure>>

\* one iteration of the item loop, ingredient branch
ProcessIngredientItem ==
    /\ AtItem
    /\ TopItem.ingredient_id # 0
    /\ \E m \in {IngredientItem(Machine)} : Commit(m, ctx)
    /\ UNCHANGED <<recipe_items, ingredients, is_open, mutated, ncalls, nupdates,
                   pure>>

\* one iteration of the item loop, sub-recipe branch
ProcessSubRecipeItem ==
    /\ AtItem
    /\ TopItem.ingredient_id = 0
    /\ TopItem.sub_recipe_id # 0
    /\ \E m \in {SubRecipeItem(Machine)} : Commit(m, ctx)
    /\ UNCHANGED <<recipe_items, ingredients, is_open, mutated, ncalls, nupdates,
                   pure>>

\* the item loop is over: compute, memoize, return
FinishRecipe ==
    /\ stack # <<>>
    /\ ~AtItem
    /\ \E m \in {Finish(Machine)} : Commit(m, ctx)
    /\ UNCHANGED <<recipe_items, ingredients, is_open, mutated, ncalls, nupdates,
                   pure>>

\* streamlit_app.update_ingredient_price
UpdateIngredientPrice(ingredient_id, new_price) ==
    /\ ctx.op = "none"
    /\ nupdates < MaxUpdates
    /\ ncalls < MaxCalls
    /\ nupdates' = nupdates + 1
    /\ ingredients' = IF ingredient_id \in DOMAIN ingredients
                      THEN [ingredients EXCEPT ![ingredient_id] = QInt(new_price)]
                      ELSE ingredients
    /\ mutated' = (mutated \/ cache # EmptyMap)
    /\ UNCHANGED <<recipe_items, is_open, cache, stack, ctx, last, shown,
                   recipe_queries, item_queries, call0, trace, returned, failed,
                   ncalls, pure>>

(***************************************************************************)
(* The dashboard of a script run, streamlit_app.py lines 94-117.           *)
(***************************************************************************)
\* get_all_products: the inner joins drop a product whose recipe or packaging
\* has no record; ORDER BY r.level, r.name
Joined ==
    {p \in DOMAIN products :
        /\ products[p].recipe_id \in DOMAIN recipes
        /\ products[p].packaging_id \in DOMAIN packaging_types}

Before(p, q) ==
    LET a == recipes[products[p].recipe_id]
        b == recipes[products[q].recipe_id]
    IN  \/ a.level < b.level
        \/ a.level = b.level /\ a.name < b.name
        \/ a.level = b.level /\ a.name = b.name /\ p < q

RECURSIVE Ordered(_)
Ordered(S) ==
    IF S = {} THEN <<>>
    ELSE LET first == CHOOSE p \in S : \A q \in S \ {p} : Before(p, q)
         IN  <<first>> \o Ordered(S \ {first})

get_all_products == Ordered(Joined)

\* the memo of the calculator a script run works with
RunCache_Kept == cache

RunCache == EmptyMap

\* calc = GastroCalculator(DB_PATH); products_df = get_all_products()
DashboardRun ==
    /\ ctx.op = "none"
    /\ ncalls < MaxCalls
    /\ ncalls' = ncalls + 1
    /\ is_open' = TRUE
    /\ cache' = RunCache
    /\ recipe_queries' = NoCount
    /\ item_queries' = NoCount
    /\ returned' = EmptyMap
    /\ failed' = FALSE
    /\ mutated' = (mutated /\ RunCache # EmptyMap)
    /\ shown' = EmptyMap
    /\ call0' = NoCall0
    /\ ctx' = [op |-> "dash", id |-> 0, depth |-> 0, queue |-> get_all_products]
    /\ UNCHANGED <<recipe_items, ingredients, stack, last, trace, nupdates, pure>>

\* the loop body: calc.calculate_product(row['product_id']) under try/except
DashboardProduct ==
    /\ ctx.op = "dash"
    /\ ctx.id = 0
    /\ ctx.queue # <<>>
    /\ \E m \in {Enter(Fresh, products[Head(ctx.queue)].recipe_id, 0)} :
           Commit(m, [ctx EXCEPT !.id = Head(ctx.queue), !.queue = Tail(ctx.queue)])
    /\ UNCHANGED <<recipe_items, ingredients, is_open, mutated, ncalls, nupdates,
                   pure>>

\* calc.close()
DashboardClose ==
    /\ ctx.op = "dash"
    /\ ctx.id = 0
    /\ ctx.queue = <<>>
    /\ is_open' = FALSE
    /\ ctx' = Idle
    /\ UNCHANGED <<recipe_items, ingredients, cache, stack, last, shown,
                   recipe_queries, item_queries, call0, trace, returned, failed,
                   mutated, ncalls, nupdates, pure>>

Next ==
    \/ NewCalculator
    \/ \E recipe_id \in 1..AbsentRecipe, depth \in Depths :
           CalculateRecipeCost(recipe_id, depth)
    \/ \E product_id \in 1..AbsentProduct : CalculateProduct(product_id)
    \/ ProcessIngredientItem
    \/ ProcessSubRecipeItem
    \/ FinishRecipe
    \/ \E ingredient_id \in IngredientIds, new_price \in 0..MaxPrice :
           UpdateIngredientPrice(ingredient_id, new_price)
    \/ DashboardRun
    \/ DashboardProduct
    \/ DashboardClose

Spec == Init /\ [][Next]_vars

\* the item loop and the return of an active invocation
Running == ProcessIngredientItem \/ ProcessSubRecipeItem \/ FinishRecipe

\* an invocation of calculate_recipe_cost is active
Active == stack # <<>>

\* every row of recipe_items is an ingredient row or a sub-recipe row (the
\* CHECK of the table), so one of the guards of Running holds while Active
Steppable == AtItem => TopItem.ingredient_id # 0 \/ TopItem.sub_recipe_id # 0

\* the machine after the step of Running whose guard holds
Step ==
    IF ~AtItem THEN Finish(Machine)
    ELSE IF TopItem.ingredient_id # 0 THEN IngredientItem(Machine)
    ELSE SubRecipeItem(Machine)

\* while Active, a step of Running is possible and changes the state
RunningEnabled == Active => Steppable /\ Step.stack # stack

\* The interpreter keeps executing a call it has begun: weak fairness of
\* Running, []<>~ENABLED <<Running>>_vars \/ []<><<Running>>_vars, in which
\* ENABLED <<Running>>_vars is written as the state predicate it equals,
\* Active (RunningEnabled is an invariant; no guard of Running holds on an
\* empty stack).
Fairness == []<>~Active \/ []<><<Running>>_vars

FairSpec == Spec /\ Fairness

TypeOK ==
    /\ DOMAIN cache \subseteq RecipeIds
    /\ Len(stack) <= MaxDepth + 1

(***************************************************************************)
(* Shapes of the recipe graph that the claims speak of.                    *)
(***************************************************************************)
SubRows(r) ==
    IF r \in DOMAIN recipe_items
    THEN {k \in 1..Len(recipe_items[r]) :
             recipe_items[r][k].ingredient_id = 0 /\ recipe_items[r][k].sub_recipe_id # 0}
    ELSE {}

IngRows(r) ==
    IF r \in DOMAIN recipe_items
    THEN {k \in 1..Len(recipe_items[r]) : recipe_items[r][k].ingredient_id # 0}
    ELSE {}

IngredientsPresent(r) ==
    \A k \in IngRows(r) : recipe_items[r][k].ingredient_id \in DOMAIN ingredients

\* the sub-recipe of a recipe that references exactly one, else 0
OnlySub(r) ==
    IF Cardinality(SubRows(r)) = 1
    THEN recipe_items[r][CHOOSE k \in SubRows(r) : TRUE].sub_recipe_id
    ELSE 0

\* the k-th recipe of the linear chain that starts at root, else 0
RECURSIVE ChainAt(_, _)
ChainAt(root, k) ==
    IF k = 1 THEN (IF root \in DOMAIN recipes THEN root ELSE 0)
    ELSE LET p == ChainAt(root, k - 1) IN IF p = 0 THEN 0 ELSE OnlySub(p)

\* root heads a linear chain of at least n recipes (the n-th is only referenced)
ChainOfAtLeast(root, n) ==
    /\ ChainAt(root, n) # 0
    /\ \A k \in 1..(n - 1) : IngredientsPresent(ChainAt(root, k))

\* root heads a linear chain of exactly n recipes, the n-th without sub-recipe
ChainOfExactly(root, n) ==
    /\ ChainOfAtLeast(root, n)
    /\ ChainAt(root, n) \in DOMAIN recipes
    /\ SubRows(ChainAt(root, n)) = {}
    /\ IngredientsPresent(ChainAt(root, n))

\* the last call was a top-level resolve at depth 0 on an empty cache
RootResolveOnEmptyCache ==
    /\ last.op = "recipe"
    /\ last.depth = 0
    /\ last.cache_before = EmptyMap

(***************************************************************************)
(* C1: an invocation entered with depth > 3 fails with the depth-exceeded  *)
(* error naming the recipe being entered; so on an empty cache a top-level *)
(* resolve of the root of a linear chain of 5 recipes raises depth-        *)
(* exceeded naming the 5th recipe, and a chain of 4 recipes returns a      *)
(* result.                                                                 *)
(***************************************************************************)
C1_DepthGuard ==
    /\ last.deepest[1] > MaxDepth =>
           last.kind = "RecursionError" /\ last.err_id = last.deepest[2]
    /\ RootResolveOnEmptyCache /\ ChainOfAtLeast(last.id, MaxDepth + 2) =>
           /\ last.kind = "RecursionError"
           /\ last.err_id = ChainAt(last.id, MaxDepth + 2)
    /\ RootResolveOnEmptyCache /\ ChainOfExactly(last.id, MaxDepth + 1) =>
           last.kind = "ok"

\* a chain of 5 recipes was resolved from its root and failed at the 5th
C1_Witness ==
    /\ RootResolveOnEmptyCache
    /\ ChainOfAtLeast(last.id, MaxDepth + 2)
    /\ last.kind = "RecursionError"
    /\ last.err_id = ChainAt(last.id, MaxDepth + 2)
    /\ last.deepest = <<MaxDepth + 1, last.err_id>>

\* the last call was calculate_recipe_cost on an identifier already memoized
ResolveOfMemoized ==
    /\ last.op = "recipe"
    /\ last.id \in DOMAIN last.cache_before

\* the last call returned the memoized tuple and touched nothing
ReturnedMemoized ==
    /\ last.kind = "ok"
    /\ last.resolved = <<last.cache_before[last.id]>>
    /\ last.selects = 0
    /\ last.cache_after = last.cache_before

(***************************************************************************)
(* C2 as stated: once an identifier is memoized, a later call with that    *)
(* identifier and any depth, depth > 3 included, returns the memoized      *)
(* tuple without querying the store and without validating depth.          *)
(***************************************************************************)
C2_AnyDepthReturnsMemoized == ResolveOfMemoized => ReturnedMemoized

(***************************************************************************)
(* C2 amended: once an identifier is memoized, a later call with that      *)
(* identifier and a depth of at most 3 returns the memoized tuple without  *)
(* querying the store; with depth > 3 it raises depth-exceeded naming the  *)
(* identifier, also without querying, because depth is validated before    *)
(* the cache is consulted.                                                 *)
(***************************************************************************)
C2_MemoizedWithinDepth ==
    ResolveOfMemoized =>
        IF last.depth <= MaxDepth
        THEN ReturnedMemoized
        ELSE /\ last.kind = "RecursionError"
             /\ last.err_id = last.id
             /\ last.selects = 0
             /\ last.cache_after = last.cache_before

\* a memoized identifier was requested again at depth 3
C2_Witness ==
    /\ ResolveOfMemoized
    /\ last.depth = MaxDepth
    /\ ReturnedMemoized

\* a successful resolve returned what this instance had returned before
SameAsBefore == last.resolved # <<>> /\ last.prev # <<>> => last.resolved = last.prev

\* no identifier was looked up twice by this instance
LookedUpAtMostOnce ==
    \A r \in 1..AbsentRecipe : recipe_queries[r] <= 1 /\ item_queries[r] <= 1

(***************************************************************************)
(* C3 as stated: over an unchanged store, two successful resolves of one   *)
(* identifier on one instance return the identical result, and the recipe  *)
(* row and the item rows of any identifier are looked up at most once in   *)
(* the lifetime of the instance, also with repeated references, with       *)
(* cycles, and after a call that ended in an error.                        *)
(***************************************************************************)
C3_LookupsAtMostOnce == nupdates = 0 => SameAsBefore /\ LookedUpAtMostOnce

\* a recipe is being entered again while its own resolution is active
Reentrant ==
    \E i, j \in 1..Len(stack) : i < j /\ stack[i].recipe_id = stack[j].recipe_id

\* the last call looked up no identifier that was memoized when it began
MemoizedNotLookedUp ==
    \A r \in DOMAIN last.cache_before :
        /\ last.rq_after[r] = last.rq_before[r]
        /\ last.iq_after[r] = last.iq_before[r]

(***************************************************************************)
(* C3 amended: two successful resolves of one identifier on one instance   *)
(* return the identical result; a memoized identifier is never looked up   *)
(* again; and the rows of every identifier are looked up at most once as   *)
(* long as no invocation on the instance has raised and no recipe is being *)
(* re-entered while its own resolution is active (a cycle, which always    *)
(* ends in depth-exceeded).  An identifier whose resolution was aborted is *)
(* looked up again when it is entered again.                               *)
(***************************************************************************)
C3_LookupsOncePerCompletion ==
    /\ SameAsBefore
    /\ MemoizedNotLookedUp
    /\ ~failed /\ ~Reentrant => LookedUpAtMostOnce

\* a recipe referenced twice within one successful resolve, looked up once
C3_Witness ==
    /\ last.op = "recipe"
    /\ last.kind = "ok"
    /\ ~failed
    /\ \E r \in DOMAIN last.cache_after :
          /\ r \notin DOMAIN last.cache_before
          /\ last.rq_after[r] = 1
          /\ Cardinality({x \in DOMAIN last.cache_after :
                 \E k \in SubRows(x) : recipe_items[x][k].sub_recipe_id = r}) >= 2

\* the memoized value of r has a line for every item of r
EveryItemAccounted(r, value) ==
    /\ Len(value.details.ingredients) = Cardinality(IngRows(r))
    /\ Len(value.details.sub_recipes) = Cardinality(SubRows(r))
    /\ \A k \in 1..Len(value.details.sub_recipes) :
          value.details.sub_recipes[k].recipe_id \in DOMAIN cache

\* the chain of invocations stays within the root and MaxDepth hops, and a
\* call that went deeper ended in depth-exceeded
NoSilentTruncation ==
    /\ Len(stack) <= MaxDepth + 1
    /\ \A r \in DOMAIN cache : EveryItemAccounted(r, cache[r])
    /\ last.deepest[1] > MaxDepth => last.kind = "RecursionError"
    /\ last.kind \in {"none", "ok", "RecursionError", "ValueError", "TypeError",
                      "ZeroDivisionError"}

(***************************************************************************)
(* C4: every call of calculate_recipe_cost terminates, for every store     *)
(* content, cycles included, with a result or an error; an invocation      *)
(* chain never grows beyond the root and 3 hops, a resolve that would need *)
(* a further hop ends in depth-exceeded, and a returned cost accounts for  *)
(* every item of its recipe (no silent truncation).                        *)
(***************************************************************************)
C4_Terminates ==
    /\ []NoSilentTruncation
    /\ []RunningEnabled
    /\ Active ~> ~Active

\* root reaches itself through sub-recipe references
RECURSIVE Reaches(_, _, _)
Reaches(from, to, fuel) ==
    /\ fuel > 0
    /\ \E k \in SubRows(from) :
          LET s == recipe_items[from][k].sub_recipe_id
          IN  s = to \/ Reaches(s, to, fuel - 1)

\* a resolve into a cycle of more than one recipe has ended, with depth-exceeded
C4_Witness ==
    /\ stack = <<>>
    /\ last.op = "recipe"
    /\ last.depth = 0
    /\ Reaches(last.id, last.id, MaxRecipes)
    /\ SubRows(last.id) # {}
    /\ OnlySub(last.id) # last.id
    /\ last.kind = "RecursionError"
    /\ last.deepest[1] = MaxDepth + 1

RECURSIVE CostFormula(_, _, _)
RECURSIVE ItemsCost(_, _, _, _)
ItemsCost(rows, k, prices, fuel) ==
    IF k > Len(rows) THEN QZero
    ELSE LET row == rows[k]
             unit == IF row.ingredient_id # 0
                     THEN (IF row.ingredient_id \in DOMAIN prices
                           THEN prices[row.ingredient_id] ELSE QZero)
                     ELSE CostFormula(row.sub_recipe_id, prices, fuel - 1)
         IN  QAdd(QMul(row.amount, unit), ItemsCost(rows, k + 1, prices, fuel))

CostFormula(r, prices, fuel) ==
    IF fuel = 0 \/ r \notin DOMAIN recipes THEN QZero
    ELSE QDiv(QAdd(ItemsCost(recipe_items[r], 1, prices, fuel),
                   recipes[r].energy_cost_chf),
              QMul(recipes[r].batch_size_l, QDiv(recipes[r].yield_pct, QInt(100))))

Cost(r, prices) == CostFormula(r, prices, MaxRecipes + 1)

\* the sum of the costs of detail lines
RECURSIVE LinesCost(_, _)
LinesCost(lines, k) ==
    IF k > Len(lines) THEN QZero ELSE QAdd(lines[k].cost, LinesCost(lines, k + 1))

\* value is composed of its own lines and of what this instance returns for
\* the sub-recipes
Composed(r, value) ==
    LET d == value.details
    IN  /\ \A k \in 1..Len(d.ingredients) :
              d.ingredients[k].cost =
                  QMul(d.ingredients[k].amount, d.ingredients[k].price_per_unit)
        /\ \A k \in 1..Len(d.sub_recipes) :
              /\ d.sub_recipes[k].recipe_id \in DOMAIN cache
              /\ d.sub_recipes[k].cost =
                    QMul(d.sub_recipes[k].amount_l,
                         cache[d.sub_recipes[k].recipe_id].cost_per_liter)
        /\ QMul(value.cost_per_liter, d.net_output_l) =
              QAdd(QAdd(LinesCost(d.ingredients, 1), LinesCost(d.sub_recipes, 1)),
                   recipes[r].energy_cost_chf)

(***************************************************************************)
(* C6: for every recipe whose resolution succeeds (on a store unchanged    *)
(* while the instance holds memoized values), cost_per_liter is the cost   *)
(* formula, in which the cost of a sub-recipe is what a standalone         *)
(* top-level resolve of that sub-recipe returns.                           *)
(***************************************************************************)
C6_CostFormula ==
    /\ \A r \in DOMAIN cache : Composed(r, cache[r])
    /\ ~mutated => \A r \in DOMAIN cache :
          /\ cache[r].cost_per_liter = Cost(r, ingredients)
          /\ cache[r].details.cost_per_liter = cache[r].cost_per_liter
          /\ \A k \in 1..Len(cache[r].details.sub_recipes) :
                LET line == cache[r].details.sub_recipes[k]
                IN  line.cost_per_liter = Cost(line.recipe_id, ingredients)
    /\ last.resolved # <<>> /\ ~last.stale =>
          last.resolved[1].cost_per_liter = Cost(last.recipe_id, last.prices)

\* a recipe with a sub-recipe was resolved, after its sub-recipe had been
\* resolved standalone on the same instance
C6_Witness ==
    /\ last.op = "recipe"
    /\ last.kind = "ok"
    /\ ~last.stale
    /\ last.id \notin DOMAIN last.cache_before
    /\ \E k \in SubRows(last.id) :
          LET sub == recipe_items[last.id][k].sub_recipe_id
          IN  /\ sub \in DOMAIN returned
              /\ sub \in DOMAIN last.cache_before
              /\ returned[sub].cost_per_liter = Cost(sub, last.prices)
              /\ returned[sub].cost_per_liter # QZero
    /\ last.resolved[1].cost_per_liter = Cost(last.id, last.prices)

\* a dashboard row is computed from the prices the store holds now
RowReflectsStore(row) ==
    /\ row.prices = ingredients
    /\ row.resolved # <<>> =>
          row.resolved[1].cost_per_liter = Cost(row.recipe_id, ingredients)
    /\ row.value # <<>> =>
          /\ row.value[1].recipe_cost_per_liter = Cost(row.recipe_id, ingredients)
          /\ row.value[1].target_price =
                calc_target_price(
                    calc_cost_per_unit(Cost(row.recipe_id, ingredients),
                        row.value[1].size_l,
                        packaging_types[products[row.id].packaging_id].price_jar,
                        packaging_types[products[row.id].packaging_id].price_lid,
                        packaging_types[products[row.id].packaging_id].price_label),
                    products[row.id].markup_factor)

(***************************************************************************)
(* C7: resolving a recipe twice on one instance yields identical results,  *)
(* also after an ingredient price was changed in between (the instance     *)
(* keeps returning the pre-change result); an instance constructed after   *)
(* the change returns the result computed from the new price; a dashboard  *)
(* run constructs its own calculator, so every row it displays is computed *)
(* from the prices of the store at that run.                               *)
(***************************************************************************)
C7_Determinism ==
    /\ SameAsBefore
    /\ last.resolved # <<>> /\ ~last.stale =>
          last.resolved[1].cost_per_liter = Cost(last.recipe_id, last.prices)
    /\ ctx.op = "dash" => \A p \in DOMAIN shown : RowReflectsStore(shown[p])
    /\ ctx.op = "dash" /\ ctx.id = 0 /\ ctx.queue = <<>> => DOMAIN shown = Joined

\* after a price change the old instance returned the pre-change result again
C7_Witness ==
    /\ last.kind = "ok"
    /\ last.stale
    /\ last.prev # <<>>
    /\ last.resolved = last.prev
    /\ last.resolved[1].cost_per_liter # Cost(last.recipe_id, last.prices)

(***************************************************************************)
(* Direct applications of calc_cost_per_liter, on arguments of every sign. *)
(***************************************************************************)
CostArgs ==
    {<<ic, ec, b, y>> :
        ic \in {QZero, Q(3, 2), QInt(4)}, ec \in {QZero, QInt(1)},
        b \in {QInt(-2), QInt(-1), QZero, QInt(1), QInt(2)},
        y \in {QInt(-50), QZero, QInt(60), QInt(100)}}

InitCalc ==
    /\ recipe_items = StoreItems(1, "plain")
    /\ ingredients = [i \in IngredientIds |-> QInt(1)]
    /\ InitCalculator
    /\ \E a \in CostArgs : pure = [fn |-> "calc_cost_per_liter", args |-> a, out |-> <<>>]

ApplyCostPerLiter ==
    /\ pure.fn = "calc_cost_per_liter"
    /\ pure.out = <<>>
    /\ pure' = [pure EXCEPT
                  !.out = <<calc_cost_per_liter(pure.args[1], pure.args[2],
                                                pure.args[3], pure.args[4])>>]
    /\ UNCHANGED <<recipe_items, ingredients, is_open, cache, stack, ctx, last,
                   shown, recipe_queries, item_queries, call0, trace, returned,
                   failed, mutated, ncalls, nupdates>>

NextCalc == ApplyCostPerLiter

CalcSpec == InitCalc /\ [][NextCalc]_vars

NetOutput == QMul(pure.args[3], QDiv(pure.args[4], QInt(100)))
Quotient == QDiv(QAdd(pure.args[1], pure.args[2]), NetOutput)

(***************************************************************************)
(* C8 as stated: cost_per_liter is (material + energy) / net_output when   *)
(* net_output = batch_size_l x yield_pct / 100 is positive and 0 when      *)
(* net_output <= 0, for every combination of signs of batch_size_l and     *)
(* yield_pct, both negative included.                                      *)
(***************************************************************************)
C8_NetOutputDecides ==
    pure.out # <<>> =>
        IF QLt(QZero, NetOutput) THEN pure.out[1] = Quotient ELSE pure.out[1] = QZero

(***************************************************************************)
(* C8 amended: cost_per_liter is (material + energy) / net_output when     *)
(* batch_size_l > 0 and yield_pct > 0, and 0 when either is <= 0: also     *)
(* when both are negative, where net_output is positive.                   *)
(***************************************************************************)
C8_BothPositiveDecides ==
    pure.out # <<>> =>
        IF QLt(QZero, pure.args[3]) /\ QLt(QZero, pure.args[4])
        THEN pure.out[1] = Quotient
        ELSE pure.out[1] = QZero

\* both negative: net_output is positive and the result is 0
C8_Witness ==
    /\ pure.out # <<>>
    /\ QLt(pure.args[3], QZero)
    /\ QLt(pure.args[4], QZero)
    /\ QLt(QZero, NetOutput)
    /\ QLt(QZero, QAdd(pure.args[1], pure.args[2]))
    /\ pure.out[1] = QZero

\* the price of a finished calculate_product
Priced(row) ==
    row.value # <<>> =>
        LET v == row.value[1]
            packaging == packaging_types[products[row.id].packaging_id]
            raw == QMul(v.cost_per_unit, products[row.id].markup_factor)
        IN  /\ v.cost_per_unit =
                  QAdd(QAdd(QAdd(QMul(row.resolved[1].cost_per_liter, packaging.size_l),
                                 packaging.price_jar), packaging.price_lid),
                       packaging.price_label)
            /\ QMul(v.target_price, QInt(20)).d = 1
            /\ QLe(QAbs(QSub(v.target_price, raw)), Q(1, 40))

(***************************************************************************)
(* C9: for every product that is priced, target_price is an integer        *)
(* multiple of 0.05 within 0.025 of cost_per_unit x markup_factor, where   *)
(* cost_per_unit = cost_per_liter x size_l + jar + lid + label; 19.03      *)
(* gives 19.05 and 19.00 gives 19.00.                                      *)
(***************************************************************************)
C9_TargetPrice ==
    /\ last.op = "product" => Priced(last)
    /\ \A p \in DOMAIN shown : Priced(shown[p])
    /\ calc_target_price(Q(1903, 100), QInt(1)) = Q(1905, 100)
    /\ calc_target_price(QInt(19), QInt(1)) = QInt(19)

\* a raw price strictly between two multiples of 0.05, rounded up
C9_Witness ==
    /\ last.op = "product"
    /\ last.value # <<>>
    /\ QLt(QMul(last.value[1].cost_per_unit, products[last.id].markup_factor),
           last.value[1].target_price)

\* the first row of r that cannot be processed is an absent ingredient
AbsentIngredientFirst(r) ==
    \E k \in IngRows(r) :
        /\ recipe_items[r][k].ingredient_id \notin DOMAIN last.prices
        /\ \A j \in 1..(k - 1) : j \in IngRows(r) /\ j \in 1..k
        /\ \A j \in 1..(k - 1) : recipe_items[r][j].ingredient_id \in DOMAIN last.prices

\* the last call met an item whose ingredient has no record
MeetsAbsentIngredient ==
    /\ last.op = "recipe"
    /\ last.depth <= MaxDepth
    /\ last.id \in DOMAIN recipes
    /\ last.id \notin DOMAIN last.cache_before
    /\ AbsentIngredientFirst(last.id)

\* the last call resolved the recipe of a product whose packaging has no record
MeetsAbsentPackaging ==
    /\ last.op = "product"
    /\ last.id \in DOMAIN products
    /\ last.resolved # <<>>
    /\ products[last.id].packaging_id \notin DOMAIN packaging_types

(***************************************************************************)
(* C10: an item that references an ingredient without record, or a product *)
(* that references a packaging without record, makes the call fail with    *)
(* the not-found error (ValueError) used for a missing recipe or product.  *)
(***************************************************************************)
C10_AbsentEntityIsNotFound ==
    MeetsAbsentIngredient \/ MeetsAbsentPackaging => last.kind = "ValueError"

\* the target price that a row's resolved recipe cost, packaging and markup give
RowCostPerUnit(row) ==
    LET packaging == packaging_types[products[row.id].packaging_id]
    IN  QAdd(QAdd(QAdd(QMul(row.resolved[1].cost_per_liter, packaging.size_l),
                       packaging.price_jar), packaging.price_lid),
             packaging.price_label)

RowTargetPrice(row) ==
    calc_target_price(RowCostPerUnit(row), products[row.id].markup_factor)

\* the recipe of an existing product with an existing packaging was resolved
ReachedMargin(row) ==
    /\ row.op \in {"product", "dash"}
    /\ row.id \in DOMAIN products
    /\ row.resolved # <<>>
    /\ products[row.id].packaging_id \in DOMAIN packaging_types

\* a target price of 0 ends in the division error, any other in the margin
MarginOrDivisionError(row) ==
    ReachedMargin(row) =>
        IF RowTargetPrice(row) = QZero
        THEN /\ row.kind = "ZeroDivisionError"
             /\ row.value = <<>>
        ELSE /\ row.kind = "ok"
             /\ row.value[1].target_price = RowTargetPrice(row)
             /\ row.value[1].cost_per_unit = RowCostPerUnit(row)
             /\ QMul(row.value[1].brutto_margin_pct, RowTargetPrice(row)) =
                   QMul(QSub(RowTargetPrice(row), RowCostPerUnit(row)), QInt(100))

(***************************************************************************)
(* C11: calculate_product does not guard the margin: for an existing       *)
(* product whose rounded target_price is 0 the call ends in a division-by- *)
(* zero error raised to the caller instead of a result; whenever the       *)
(* target_price is not 0 it returns margin_pct = (target_price -           *)
(* cost_per_unit) / target_price x 100.                                    *)
(***************************************************************************)
C11_UnguardedMargin ==
    /\ MarginOrDivisionError(last)
    /\ \A p \in DOMAIN shown : MarginOrDivisionError(shown[p])

\* a product of zero cost was calculated by a caller and the division failed
C11_Witness ==
    /\ last.op = "product"
    /\ ReachedMargin(last)
    /\ last.resolved[1].cost_per_liter = QZero
    /\ RowTargetPrice(last) = QZero
    /\ last.kind = "ZeroDivisionError"

(***************************************************************************)
(* A whole call of calculate_recipe_cost on an instance of its own: the    *)
(* steps of the item loop applied to a machine until the outermost         *)
(* invocation has ended.                                                   *)
(***************************************************************************)
\* the step of the innermost invocation of m (lines 78-134)
Advance(m) ==
    LET f == m.stack[Len(m.stack)]
        rows == recipe_items[f.recipe_id]
    IN  IF f.idx > Len(rows) THEN Finish(m)
        ELSE IF rows[f.idx].ingredient_id # 0 THEN IngredientItem(m)
        ELSE SubRecipeItem(m)

RECURSIVE Run(_)
Run(m) == IF m.out # <<>> THEN m ELSE Run(Advance(m))

\* a newly constructed GastroCalculator (lines 35-38)
FreshMachine ==
    [stack |-> <<>>, cache |-> EmptyMap, rq |-> NoCount, iq |-> NoCount,
     trace |-> NoTrace, before |-> NoCall0, out |-> <<>>]

\* the outcome of calculate_recipe_cost(recipe_id) on a new instance
FreshOutcome(recipe_id) == Run(Enter(FreshMachine, recipe_id, 0)).out[1]

\* the last call was a top-level resolve (depth 0)
RootResolve == last.op = "recipe" /\ last.depth = 0

\* recipe r, or a recipe that r reaches through sub-recipe references, was
\* memoized when the last call began
MemoizedBelow(r) ==
    \E x \in DOMAIN last.cache_before : x = r \/ Reaches(r, x, MaxRecipes)

(***************************************************************************)
(* C12 as stated: resolve(R) at depth 0 raises depth-exceeded on a used    *)
(* instance if and only if it raises it on a fresh instance, whatever was  *)
(* resolved on the instance before.                                        *)
(***************************************************************************)
C12_DepthErrorIndependentOfHistory ==
    RootResolve =>
        (last.kind = "RecursionError" <=>
             FreshOutcome(last.id).kind = "RecursionError")

\* some recipe among the first MaxDepth + 1 of the chain from the root of the
\* last call was memoized when the call began
MemoizedWithinReach ==
    \E k \in 1..(MaxDepth + 1) : ChainAt(last.id, k) \in DOMAIN last.cache_before

(***************************************************************************)
(* C12 amended: memoized entries can suppress a depth-exceeded error but   *)
(* never cause one.  If resolve(R) at depth 0 raises depth-exceeded on a   *)
(* used instance, it raises it on a fresh instance too; if the outcomes    *)
(* differ, R or a recipe that R reaches was memoized by an earlier call.   *)
(* A chain of 5 recipes resolved from its root returns a result once one   *)
(* of its first 4 recipes is memoized (a hit returns before recursing),    *)
(* and still raises depth-exceeded naming the 5th when none of them is,    *)
(* even if the 5th is memoized (depth is validated before the cache).      *)
(***************************************************************************)
C12_MemoCanOnlySuppressDepthError ==
    RootResolve =>
        /\ last.kind = "RecursionError" =>
               FreshOutcome(last.id).kind = "RecursionError"
        /\ last.kind # FreshOutcome(last.id).kind => MemoizedBelow(last.id)
        /\ ChainOfAtLeast(last.id, MaxDepth + 2) =>
               IF MemoizedWithinReach
               THEN last.kind = "ok"
               ELSE /\ last.kind = "RecursionError"
                    /\ last.err_id = ChainAt(last.id, MaxDepth + 2)

\* the root of a chain of 5 recipes was resolved after the 4th had been
\* resolved standalone: a result, where a fresh instance raises depth-exceeded
C12_Witness ==
    /\ RootResolve
    /\ ChainOfAtLeast(last.id, MaxDepth + 2)
    /\ DOMAIN last.cache_before =
           {ChainAt(last.id, MaxDepth + 1), ChainAt(last.id, MaxDepth + 2)}
    /\ last.kind = "ok"
    /\ FreshOutcome(last.id).kind = "RecursionError"

\* no recipe with an active invocation is memoized
ActiveNotMemoized ==
    \A i \in 1..Len(stack) : stack[i].recipe_id \notin DOMAIN cache

\* the step that the running call takes next raises
AboutToRaise ==
    /\ Active
    /\ Steppable
    /\ Step.out # <<>>
    /\ Step.out[1].kind # "ok"

\* a raise leaves the cache as it is, without an entry for any recipe of the
\* active chain, nor for a recipe that was not found
RaiseLeavesCache ==
    AboutToRaise =>
        /\ Step.cache = cache
        /\ \A i \in 1..Len(stack) : stack[i].recipe_id \notin DOMAIN Step.cache
        /\ Step.out[1].kind = "ValueError" =>
               Step.out[1].err_id \notin DOMAIN Step.cache

\* the recipe resolution of the last call ended in an error
ResolveFailed ==
    /\ last.op \in {"recipe", "product"}
    /\ last.recipe_id # 0
    /\ last.resolved = <<>>

\* the entries held before the failed call are unchanged, and its root has
\* none unless it held one before
FailedCallKeepsEntries ==
    ResolveFailed =>
        /\ \A r \in DOMAIN last.cache_before :
              r \in DOMAIN last.cache_after
              /\ last.cache_after[r] = last.cache_before[r]
        /\ last.recipe_id \in DOMAIN last.cache_after =>
              last.recipe_id \in DOMAIN last.cache_before

(***************************************************************************)
(* C13 as stated, for its case of an unchanged store: every entry of the   *)
(* cache equals the value a fresh instance would have computed for that    *)
(* recipe on the store.                                                    *)
(***************************************************************************)
C13_EntryIsFreshValue ==
    ~mutated => \A r \in DOMAIN cache :
        /\ FreshOutcome(r).kind = "ok"
        /\ FreshOutcome(r).value = <<cache[r]>>

\* entry r is a completed resolution: a line for every item of r, composed of
\* its ingredient lines and of the memoized costs of its sub-recipes
Completed(r) ==
    /\ EveryItemAccounted(r, cache[r])
    /\ Composed(r, cache[r])

(***************************************************************************)
(* C13 amended: the cache only ever holds completed resolutions: no recipe *)
(* with an active invocation is memoized, and every entry has a line for   *)
(* every item of its recipe and is composed of its ingredient lines and of *)
(* the memoized costs of its sub-recipes.  While no price has changed      *)
(* under memoized values, an entry is the value of the cost formula on the *)
(* store, and equals what a fresh instance computes whenever the fresh     *)
(* instance returns a result (it may instead raise depth-exceeded where    *)
(* memoized sub-recipes had cut the recursion short).  When a call ends in *)
(* an error, no recipe of the active chain gets an entry, a recipe that    *)
(* was not found gets none, entries of sub-recipes completed during the    *)
(* call stay, and the entries held before the call are unchanged.          *)
(***************************************************************************)
C13_CacheHoldsCompletedResolutions ==
    /\ ActiveNotMemoized
    /\ \A r \in DOMAIN cache : Completed(r)
    /\ ~mutated => \A r \in DOMAIN cache :
          /\ cache[r].cost_per_liter = Cost(r, ingredients)
          /\ FreshOutcome(r).kind \in {"ok", "RecursionError"}
          /\ FreshOutcome(r).kind = "ok" => FreshOutcome(r).value = <<cache[r]>>
    /\ RaiseLeavesCache
    /\ FailedCallKeepsEntries

\* a call ended in an error after sub-recipes had completed: they are
\* memoized, with the entries held before, and the root is not
C13_Witness ==
    /\ ResolveFailed
    /\ last.kind # "RecursionError"
    /\ last.cache_before # EmptyMap
    /\ DOMAIN last.cache_after # DOMAIN last.cache_before
    /\ last.recipe_id \notin DOMAIN last.cache_after
    /\ cache = last.cache_after

\* the stores of prices there have been, while at most one update was made
Snapshots == {InitialPrices, ingredients}

(***************************************************************************)
(* C14 as stated: under any interleaving of price updates with resolve     *)
(* calls on one instance, a returned cost_per_liter is the value of the    *)
(* recipe on the store before some update or on the store after it, never  *)
(* a mixture.                                                              *)
(***************************************************************************)
C14_SnapshotConsistent ==
    nupdates <= 1 /\ last.resolved # <<>> =>
        \E prices \in Snapshots :
            last.resolved[1].cost_per_liter = Cost(last.recipe_id, prices)

\* the cost formula in which a recipe memoized in memo counts with its
\* memoized cost
RECURSIVE MemoCost(_, _, _, _)
RECURSIVE MemoItemsCost(_, _, _, _, _)
MemoItemsCost(rows, k, prices, memo, fuel) ==
    IF k > Len(rows) THEN QZero
    ELSE LET row == rows[k]
             unit == IF row.ingredient_id # 0
                     THEN (IF row.ingredient_id \in DOMAIN prices
                           THEN prices[row.ingredient_id] ELSE QZero)
                     ELSE MemoCost(row.sub_recipe_id, prices, memo, fuel - 1)
         IN  QAdd(QMul(row.amount, unit),
                  MemoItemsCost(rows, k + 1, prices, memo, fuel))

MemoCost(r, prices, memo, fuel) ==
    IF r \in DOMAIN memo THEN memo[r].cost_per_liter
    ELSE IF fuel = 0 \/ r \notin DOMAIN recipes THEN QZero
    ELSE QDiv(QAdd(MemoItemsCost(recipe_items[r], 1, prices, memo, fuel),
                   recipes[r].energy_cost_chf),
              QMul(recipes[r].batch_size_l, QDiv(recipes[r].yield_pct, QInt(100))))

\* what a finished call returned for its recipe is the formula at the prices
\* of the call over the values memoized before it; with nothing memoized
\* under other prices that is the value of the recipe on the store
FromPricesAndMemo(row) ==
    row.resolved # <<>> =>
        /\ row.resolved[1].cost_per_liter =
              MemoCost(row.recipe_id, row.prices, row.cache_before, MaxRecipes + 1)
        /\ row.recipe_id \in DOMAIN row.cache_before =>
              row.resolved[1] = row.cache_before[row.recipe_id]
        /\ ~row.stale =>
              row.resolved[1].cost_per_liter = Cost(row.recipe_id, row.prices)

(***************************************************************************)
(* C14 amended: a returned cost_per_liter is the cost formula evaluated at *)
(* the prices the store holds during the call, except that every recipe    *)
(* memoized before the call counts with its memoized cost.  It is the      *)
(* value of the recipe on a single store when no price was updated while   *)
(* the instance held memoized values, and the pre-change value when the    *)
(* recipe itself was memoized; otherwise it can be a mixture of a          *)
(* sub-recipe cost from old prices with ingredient costs at new prices.    *)
(***************************************************************************)
C14_PricesOfCallOverMemo ==
    /\ FromPricesAndMemo(last)
    /\ \A p \in DOMAIN shown : FromPricesAndMemo(shown[p])

\* a mixture: the result is the value of the recipe on neither store
C14_Witness ==
    /\ nupdates = 1
    /\ last.op = "recipe"
    /\ last.resolved # <<>>
    /\ last.stale
    /\ last.prices = ingredients
    /\ last.recipe_id \notin DOMAIN last.cache_before
    /\ \A prices \in Snapshots :
           last.resolved[1].cost_per_liter # Cost(last.recipe_id, prices)

====
